---- MODULE Spec2Model ----
(***************************************************************************)
(* Model of the mini web app's client side:                                *)
(*   src/web_app/service-worker.js  - offline cache and background sync    *)
(*   src/web_app/ux-improvements.js - form validation                      *)
(* Each subsystem has its own specification, in which the variables of     *)
(* the other subsystems stay at their initial values:                      *)
(*   SpecSync, SpecSyncLive - pending store and background sync            *)
(*   SpecSendReport         - one call of sendReport                       *)
(*   SpecCache              - install, activate, fetch                     *)
(*   SpecWorker             - cache, fetch handler and one sync pass       *)
(*   SpecTicket, SpecSubmit, SpecForm, SpecEval, SpecFormOrder - the form  *)
(* The sync code is the same in every revision of the worker, so SpecSync  *)
(* does not say which revision runs it.                                    *)
(***************************************************************************)
EXTENDS Integers, Sequences, FiniteSets, TLC

VARIABLES
    \* ---- IndexedDB database 'ReportsDB' (service-worker.js 88-102)
    dbVersion,      \* 0: the database does not exist yet, 1: created
    objectStores,   \* names of the object stores of ReportsDB
    pendingStore,   \* records of object store 'pending': [id, data]
    keyGenerator,   \* the store's autoIncrement key generator (next key)
    \* ---- background sync (service-worker.js 49-86)
    syncTags,       \* tags of the 'sync' events dispatched so far
    passes,         \* the invocations of syncPendingReports
    posts,          \* POST /generate requests the remote endpoint received
    endpoint,       \* payloads the remote endpoint refuses (non-2xx answer)
    \* ---- one call of sendReport (service-worker.js 74-86)
    srData,         \* argument of the call
    srResponse,     \* what fetch('/generate') produces for it
    srResult,       \* "none" before the call, then how the promise settled
    \* ---- offline cache (service-worker.js 1-47)
    workers,        \* the deployed revisions of the worker script
    cacheStorage,   \* CacheStorage of the origin: caches in creation order
    controller,     \* the worker controlling each page (0: none)
    fetchEv,        \* the fetch event being handled
    \* ---- the form (ux-improvements.js)
    ticket,         \* the #ticket input and the error div next to it
    ticketResult,   \* what validateTicket returned in the last step ("none":
                    \* it was not called)
    fields,         \* the other inputs: #department, #issue, .desc, .eval
    itemCards,      \* number of .item-card elements in the document
    layout,         \* where the fields sit in the document
    focused,        \* document.activeElement (NoField: none of the fields)
    scrolledTo,     \* the field scrollIntoView was called on in the last step
    formResult      \* what validateForm returned in the last step ("none":
                    \* it was not called)

syncVars == <<dbVersion, objectStores, pendingStore, keyGenerator,
              syncTags, passes, posts, endpoint>>
srVars == <<srData, srResponse, srResult>>
cacheVars == <<workers, cacheStorage, controller, fetchEv>>
formVars == <<ticket, ticketResult, fields, itemCards, layout, focused,
              scrolledTo, formResult>>
vars == <<syncVars, srVars, cacheVars, formVars>>

\* ------------------------------------------------------------------------
\* Bounds of the model
MaxEntries == 3      \* submissions ever enqueued
MaxPasses == 2       \* invocations of syncPendingReports
MaxSyncEvents == 3   \* 'sync' events dispatched
MaxWorkers == 3      \* revisions of the worker script deployed
NumPages == 1        \* pages (clients) of the app
MaxTicketLen == 12   \* characters typed into the ticket field
MaxItems == 1        \* item cards in the form
MaxEvalLen == 7      \* characters typed into an evaluation field

Payloads == {"a", "b"}
SyncTags == {"sync-reports", "other"}

\* ------------------------------------------------------------------------
\* JavaScript values the sync code handles
Undefined == [type |-> "undefined"]
\* IDBObjectStore.getAll() returns an IDBRequest, an EventTarget that is
\* neither a thenable nor an iterable; `result` is what its success event
\* would carry (nothing in the worker listens for it).
IDBRequest(result) == [type |-> "IDBRequest", result |-> result]

\* `await v`: a thenable settles to its value; any other value is the
\* result of the await as it stands (ECMAScript Await / PromiseResolve).
Await(v) == IF v.type = "Promise" THEN v.value ELSE v

\* GetIterator: only arrays (of the values modelled here) have
\* a Symbol.iterator method.
IsIterable(v) == v.type = "Array"

\* ------------------------------------------------------------------------
\* The pending store

Ids(store) == {r.id : r \in store}

\* IDBObjectStore.getAll(): the records in key order
RECURSIVE InKeyOrder(_)
InKeyOrder(store) ==
    IF store = {} THEN <<>>
    ELSE LET first == CHOOSE r \in store : \A q \in store : r.id <= q.id
         IN <<first>> \o InKeyOrder(store \ {first})

StoreGetAll(store) == IDBRequest(InKeyOrder(store))

\* openDB's onupgradeneeded handler (lines 95-100)
UpgradeNeeded(stores) ==
    IF "pending" \notin stores THEN stores \cup {"pending"} ELSE stores

\* indexedDB.open('ReportsDB', 1) succeeding: the upgrade runs when the
\* stored version is older than 1
OpenReportsDB ==
    /\ dbVersion' = 1
    /\ objectStores' = IF dbVersion < 1 THEN UpgradeNeeded(objectStores)
                       ELSE objectStores

\* The key generator hands out its number and stays where it is.
GenerateKeyNoAdvance(generator) == [key |-> generator, next |-> generator]

\* The key generator of a store created with autoIncrement (line 98): it
\* hands out its current number and moves on to the next; deleting
\* records never takes it back.
GenerateKey(generator) == [key |-> generator, next |-> generator + 1]

\* enqueue(payload) of the Pending Store contract: a put, without an id,
\* into the store declared at line 98 (keyPath 'id', autoIncrement).
Enqueue(d) ==
    /\ keyGenerator <= MaxEntries
    /\ OpenReportsDB
    /\ pendingStore' = pendingStore \cup
           {[id |-> GenerateKey(keyGenerator).key, data |-> d]}
    /\ keyGenerator' = GenerateKey(keyGenerator).next
    /\ UNCHANGED <<syncTags, passes, posts, endpoint>>
    /\ UNCHANGED <<srVars, cacheVars, formVars>>

\* ------------------------------------------------------------------------
\* Background sync

IdlePass == [pc |-> "idle", pending |-> Undefined, error |-> "none"]

Started == {p \in 1..MaxPasses : passes[p].pc # "idle"}
Settled == {p \in 1..MaxPasses : passes[p].pc \in {"fulfilled", "rejected"}}

\* 'sync' listener (lines 50-54): only the tag 'sync-reports' starts
\* syncPendingReports, which runs up to its first await (openDB()).
SyncListener(tag) ==
    IF tag = "sync-reports"
    THEN LET p == Cardinality(Started) + 1
         IN passes' = [passes EXCEPT ![p].pc = "openDB"]
    ELSE passes' = passes

SyncEvent(tag) ==
    /\ Len(syncTags) < MaxSyncEvents
    /\ tag = "sync-reports" => Cardinality(Started) < MaxPasses
    /\ syncTags' = Append(syncTags, tag)
    /\ SyncListener(tag)
    /\ UNCHANGED <<dbVersion, objectStores, pendingStore, keyGenerator,
                   posts, endpoint>>
    /\ UNCHANGED <<srVars, cacheVars, formVars>>

\* line 57, request.onsuccess: `await openDB()` resumes with the database
OpenDBSuccess(p) ==
    /\ passes[p].pc = "openDB"
    /\ OpenReportsDB
    /\ passes' = [passes EXCEPT ![p].pc = "getAll"]
    /\ UNCHANGED <<pendingStore, keyGenerator, syncTags, posts, endpoint>>
    /\ UNCHANGED <<srVars, cacheVars, formVars>>

\* line 57, request.onerror: openDB() rejects and so does the pass
OpenDBError(p) ==
    /\ passes[p].pc = "openDB"
    /\ passes' = [passes EXCEPT ![p].pc = "rejected", ![p].error = "OpenError"]
    /\ UNCHANGED <<dbVersion, objectStores, pendingStore, keyGenerator,
                   syncTags, posts, endpoint>>
    /\ UNCHANGED <<srVars, cacheVars, formVars>>

\* lines 58-60: `const pending = await store.getAll()`
GetAllStep(p) ==
    [passes EXCEPT ![p].pc = "forOf",
                   ![p].pending = Await(StoreGetAll(pendingStore))]

GetAll(p) ==
    /\ passes[p].pc = "getAll"
    /\ passes' = GetAllStep(p)
    /\ UNCHANGED <<dbVersion, objectStores, pendingStore, keyGenerator,
                   syncTags, posts, endpoint>>
    /\ UNCHANGED <<srVars, cacheVars, formVars>>

\* The loop of lines 62-71 run over the records the request carries, each
\* delivery acknowledged unless the endpoint refuses the payload.
ForOfStepDelivering(p) ==
    LET items == passes[p].pending.result
        Post(i) == [pass |-> p, id |-> items[i].id, data |-> items[i].data,
                    ack |-> items[i].data \notin endpoint]
        sent == {items[i].id : i \in {j \in 1..Len(items) : Post(j).ack}}
    IN /\ posts' = posts \o [i \in 1..Len(items) |-> Post(i)]
       /\ pendingStore' = {r \in pendingStore : r.id \notin sent}
       /\ passes' = [passes EXCEPT ![p].pc = "fulfilled"]

\* The records the request carries deleted without any delivery.
ForOfStepDropping(p) ==
    LET items == passes[p].pending.result
    IN /\ posts' = posts
       /\ pendingStore' = pendingStore \ {items[i] : i \in 1..Len(items)}
       /\ passes' = [passes EXCEPT ![p].pc = "rejected",
                                   ![p].error = "TypeError"]

\* The loop ending with the store emptied, whatever the pass had read.
ForOfStepClearing(p) ==
    /\ posts' = posts
    /\ pendingStore' = {}
    /\ passes' = [passes EXCEPT ![p].pc = "rejected", ![p].error = "TypeError"]

\* line 62: `for (const item of pending)` over a value that is not iterable
\* throws a TypeError outside the loop's try block: the pass rejects
\* before the first delivery attempt (lines 63-70 are never reached).
ForOfStep(p) ==
    /\ ~IsIterable(passes[p].pending)
    /\ passes' = [passes EXCEPT ![p].pc = "rejected", ![p].error = "TypeError"]
    /\ UNCHANGED <<pendingStore, posts>>

ForOf(p) ==
    /\ passes[p].pc = "forOf"
    /\ ForOfStep(p)
    /\ UNCHANGED <<dbVersion, objectStores, keyGenerator, syncTags, endpoint>>
    /\ UNCHANGED <<srVars, cacheVars, formVars>>

\* ------------------------------------------------------------------------
\* sendReport (lines 74-86), as a function of what fetch produces

HttpStatuses == 200..599
Responses ==
    {[transport |-> "error", status |-> 0, json |-> FALSE]} \cup
    [transport : {"ok"}, status : HttpStatuses, json : BOOLEAN]

\* Response.ok
ResponseOk(response) == response.status \in 200..299

\* How the promise sendReport returns settles: fetch rejects on a
\* transport failure (line 75), a status outside 200-299 throws (81-83),
\* and the promise of response.json() (line 85) rejects when the body is
\* not JSON text (an empty body included).
sendReport(response) ==
    IF response.transport = "error" THEN "rejected"
    ELSE IF ~ResponseOk(response) THEN "rejected"
    ELSE IF response.json THEN "fulfilled" ELSE "rejected"

\* One call of sendReport(srData)
SendReportCall ==
    /\ srResult = "none"
    /\ srResult' = sendReport(srResponse)
    /\ posts' = IF srResponse.transport = "ok"
                THEN Append(posts, [pass |-> 0, id |-> 0, data |-> srData,
                                    ack |-> ResponseOk(srResponse)])
                ELSE posts
    /\ UNCHANGED <<srData, srResponse>>
    /\ UNCHANGED <<dbVersion, objectStores, pendingStore, keyGenerator,
                   syncTags, passes, endpoint>>
    /\ UNCHANGED <<cacheVars, formVars>>

\* ------------------------------------------------------------------------
\* Offline cache (lines 1-47)

\* line 2: each deployed revision of the script carries its own VERSION
\* (the "version bump" that brings a new cache name); revision w carries w.
VERSION(w) == w
\* line 3: `sklad-bot-${VERSION}`
CACHE_NAME(w) == <<"sklad-bot-", VERSION(w)>>
\* lines 4-9: BASE_PATH and BASE_PATH + 'index.html'
urlsToCache == {"/", "/index.html"}
\* URLs the pages request: the precached ones and one that is not
Urls == urlsToCache \cup {"/app.js"}
Pages == 1..NumPages
WorkerIds == 1..MaxWorkers

NewWorker == [state |-> "parsed", install |-> "none", cache |-> 0,
              skipWaiting |-> FALSE, activate |-> "none", cacheNames |-> <<>>,
              toDelete |-> {}, claim |-> "none"]

\* The registration's active worker (0: none)
ActiveWorker ==
    IF \E w \in WorkerIds : workers[w].state \in {"activating", "activated"}
    THEN CHOOSE w \in WorkerIds : workers[w].state \in {"activating", "activated"}
    ELSE 0
WaitingWorkers == {w \in WorkerIds : workers[w].state = "installed"}

CacheNames(storage) == {storage[i].name : i \in 1..Len(storage)}
CacheNamed(storage, n) == CHOOSE i \in 1..Len(storage) : storage[i].name = n

\* caches.open(name): the cache of that name, created empty at the end of
\* the list when there is none. Cache objects are told apart by the
\* revision that created them.
CachesOpen(storage, n, w) ==
    IF n \in CacheNames(storage) THEN storage
    ELSE Append(storage, [name |-> n, id |-> w, urls |-> {}])

\* caches.delete(name)
CachesDelete(storage, n) == SelectSeq(storage, LAMBDA c : c.name # n)

\* caches.keys(): the names in creation order
CachesKeys(storage) == [i \in 1..Len(storage) |-> storage[i].name]

\* Every asset that could be fetched is stored, the others are skipped.
AddAllPartial(urls, failed) == urls \cup (urlsToCache \ failed)

\* cache.addAll(urlsToCache), all or nothing: when the fetch of any asset
\* fails (transport failure or status outside 200-299) nothing is stored.
AddAll(urls, failed) ==
    IF failed = {} THEN urls \cup urlsToCache ELSE urls

\* Where a response comes from: a cache (its name), or one of these
NoMatch == <<"undefined", 0>>
NoResponse == <<"none", 0>>
FromNetwork == <<"network", 0>>
NetworkError == <<"network error", 0>>

\* caches.match(request) of CacheStorage (line 39): the caches are searched
\* in creation order, whatever their names; the answer here is the name of
\* the cache the response comes from, or NoMatch (undefined).
CachesMatch(storage, u) ==
    IF \E i \in 1..Len(storage) : u \in storage[i].urls
    THEN LET first == CHOOSE i \in 1..Len(storage) :
                        /\ u \in storage[i].urls
                        /\ \A j \in 1..(i - 1) : u \notin storage[j].urls
         IN storage[first].name
    ELSE NoMatch

NoFetch == [pc |-> "idle", worker |-> 0, url |-> "/", from |-> NoResponse]
\* The worker has a fetch event it has not answered yet
HasPendingEvents(w) ==
    fetchEv.worker = w /\ fetchEv.pc \in {"match", "network"}

\* 'install' event (lines 12-18) of the next revision deployed: the handler
\* asks for the cache and calls skipWaiting(). One install runs at a time.
InstallEvent(w) ==
    /\ workers[w].state = "parsed"
    /\ \A v \in 1..(w - 1) : workers[v].state \notin {"parsed", "installing"}
    /\ workers' = [workers EXCEPT ![w].state = "installing",
                                  ![w].install = "open",
                                  ![w].skipWaiting = TRUE]
    /\ UNCHANGED <<cacheStorage, controller, fetchEv>>
    /\ UNCHANGED <<syncVars, srVars, formVars>>

\* line 14: caches.open(CACHE_NAME) resolves
InstallOpen(w) ==
    /\ workers[w].install = "open"
    /\ cacheStorage' = CachesOpen(cacheStorage, CACHE_NAME(w), w)
    /\ workers' = [workers EXCEPT
          ![w].install = "addAll",
          ![w].cache = cacheStorage'[CacheNamed(cacheStorage', CACHE_NAME(w))].id]
    /\ UNCHANGED <<controller, fetchEv>>
    /\ UNCHANGED <<syncVars, srVars, formVars>>

\* line 15: cache.addAll(urlsToCache) settles; `failed` are the assets whose
\* fetch failed. The cache written is the object opened at line 14, which
\* may no longer be in the storage.
InstallAddAll(w, failed) ==
    /\ workers[w].install = "addAll"
    /\ cacheStorage' = [i \in 1..Len(cacheStorage) |->
          IF cacheStorage[i].id = workers[w].cache
          THEN [cacheStorage[i] EXCEPT !.urls = AddAll(@, failed)]
          ELSE cacheStorage[i]]
    /\ workers' = [workers EXCEPT
          ![w].install = IF failed = {} THEN "resolved" ELSE "rejected"]
    /\ UNCHANGED <<controller, fetchEv>>
    /\ UNCHANGED <<syncVars, srVars, formVars>>

\* The promise given to event.waitUntil (line 13) has settled: a rejected
\* install discards the revision, a resolved one makes it the waiting
\* worker (replacing a revision still waiting).
InstallSettled(w) ==
    /\ workers[w].state = "installing"
    /\ workers[w].install \in {"resolved", "rejected"}
    /\ workers' = [v \in WorkerIds |->
          IF v = w
          THEN [workers[v] EXCEPT !.state = IF workers[w].install = "resolved"
                                            THEN "installed" ELSE "redundant"]
          ELSE IF workers[w].install = "resolved" /\ v \in WaitingWorkers
          THEN [workers[v] EXCEPT !.state = "redundant"]
          ELSE workers[v]]
    /\ UNCHANGED <<cacheStorage, controller, fetchEv>>
    /\ UNCHANGED <<syncVars, srVars, formVars>>

\* 'activate' event (lines 21-34). The waiting revision is activated when
\* there is no active worker, or when the active one is activated, has no
\* pending event, and skipWaiting() was called (line 17) or no page uses it.
\* The pages of the replaced worker pass to the new one; the handler asks
\* for the cache names and calls clients.claim() (line 33).
ActivateEvent(w) ==
    /\ workers[w].state = "installed"
    /\ LET a == ActiveWorker
       IN /\ a # 0 =>
                /\ workers[a].state = "activated"
                /\ ~HasPendingEvents(a)
                /\ workers[w].skipWaiting \/ \A pg \in Pages : controller[pg] # a
          /\ workers' = [v \in WorkerIds |->
                IF v = w THEN [workers[v] EXCEPT !.state = "activating",
                                                 !.activate = "keys",
                                                 !.claim = "pending"]
                ELSE IF v = a THEN [workers[v] EXCEPT !.state = "redundant"]
                ELSE workers[v]]
          /\ controller' = [pg \in Pages |->
                IF a # 0 /\ controller[pg] = a THEN w ELSE controller[pg]]
    /\ UNCHANGED <<cacheStorage, fetchEv>>
    /\ UNCHANGED <<syncVars, srVars, formVars>>

\* lines 23-29: caches.keys() resolves; caches.delete is called for every
\* name that is not CACHE_NAME
\* The comparison of line 26 turned around: only the own cache is deleted.
StaleNamesInverted(names, w) ==
    {names[i] : i \in {j \in 1..Len(names) : names[j] = CACHE_NAME(w)}}

StaleNames(names, w) ==
    {names[i] : i \in {j \in 1..Len(names) : names[j] # CACHE_NAME(w)}}

ActivateKeys(w) ==
    /\ workers[w].activate = "keys"
    /\ workers' = [workers EXCEPT
          ![w].activate = "deleting",
          ![w].cacheNames = CachesKeys(cacheStorage),
          ![w].toDelete = StaleNames(CachesKeys(cacheStorage), w)]
    /\ UNCHANGED <<cacheStorage, controller, fetchEv>>
    /\ UNCHANGED <<syncVars, srVars, formVars>>

\* line 27: one caches.delete(cacheName) takes effect
ActivateDelete(w, n) ==
    /\ workers[w].activate = "deleting"
    /\ n \in workers[w].toDelete
    /\ cacheStorage' = CachesDelete(cacheStorage, n)
    /\ workers' = [workers EXCEPT ![w].toDelete = @ \ {n}]
    /\ UNCHANGED <<controller, fetchEv>>
    /\ UNCHANGED <<syncVars, srVars, formVars>>

\* Promise.all (line 24) has settled: activation is complete
ActivateSettled(w) ==
    /\ workers[w].activate = "deleting"
    /\ workers[w].toDelete = {}
    /\ workers' = [workers EXCEPT ![w].activate = "done",
                                  ![w].state = "activated"]
    /\ UNCHANGED <<cacheStorage, controller, fetchEv>>
    /\ UNCHANGED <<syncVars, srVars, formVars>>

\* line 33: clients.claim() takes effect (it runs in parallel with the
\* deletions; a worker that is no longer the active one claims nothing)
ClaimClients(w) ==
    /\ workers[w].claim = "pending"
    /\ workers' = [workers EXCEPT ![w].claim = "done"]
    /\ controller' = IF ActiveWorker = w THEN [pg \in Pages |-> w] ELSE controller
    /\ UNCHANGED <<cacheStorage, fetchEv>>
    /\ UNCHANGED <<syncVars, srVars, formVars>>

\* 'fetch' event (lines 37-47) for a request of page pg. Fetch events go to
\* the active worker once it is activated: the navigation of a page to a
\* precached document, or any request of a page the worker controls.
FetchEvent(w, u, pg) ==
    /\ fetchEv.pc \in {"idle", "responded"}
    /\ workers[w].state = "activated"
    /\ controller[pg] = w \/ u \in urlsToCache
    /\ controller' = [controller EXCEPT ![pg] = w]
    /\ fetchEv' = [pc |-> "match", worker |-> w, url |-> u, from |-> NoResponse]
    /\ UNCHANGED <<workers, cacheStorage>>
    /\ UNCHANGED <<syncVars, srVars, formVars>>

\* lines 39-44: caches.match resolves; a hit is the response, a miss goes on
\* to fetch(event.request)
FetchMatch ==
    /\ fetchEv.pc = "match"
    /\ LET hit == CachesMatch(cacheStorage, fetchEv.url)
       IN fetchEv' = IF hit # NoMatch
                     THEN [fetchEv EXCEPT !.pc = "responded", !.from = hit]
                     ELSE [fetchEv EXCEPT !.pc = "network"]
    /\ UNCHANGED <<workers, cacheStorage, controller>>
    /\ UNCHANGED <<syncVars, srVars, formVars>>

\* A runtime cache-fill: the network response is also put into the
\* revision's own cache.
FetchNetworkCaching(ok) ==
    /\ fetchEv.pc = "network"
    /\ fetchEv' = [fetchEv EXCEPT !.pc = "responded",
                                  !.from = IF ok THEN FromNetwork ELSE NetworkError]
    /\ cacheStorage' = [i \in 1..Len(cacheStorage) |->
          IF ok /\ cacheStorage[i].name = CACHE_NAME(fetchEv.worker)
          THEN [cacheStorage[i] EXCEPT !.urls = @ \cup {fetchEv.url}]
          ELSE cacheStorage[i]]
    /\ UNCHANGED <<workers, controller>>
    /\ UNCHANGED <<syncVars, srVars, formVars>>

\* line 44: fetch(event.request) settles; its outcome is the answer
FetchNetwork(ok) ==
    /\ fetchEv.pc = "network"
    /\ fetchEv' = [fetchEv EXCEPT !.pc = "responded",
                                  !.from = IF ok THEN FromNetwork ELSE NetworkError]
    /\ UNCHANGED <<workers, cacheStorage, controller>>
    /\ UNCHANGED <<syncVars, srVars, formVars>>

CacheInit ==
    /\ workers = [w \in WorkerIds |-> NewWorker]
    /\ cacheStorage = <<>>
    /\ controller = [pg \in Pages |-> 0]
    /\ fetchEv = NoFetch

\* ------------------------------------------------------------------------
\* Form validation (ux-improvements.js)

Digits == {"0", "1", "2", "3", "4", "5", "6", "7", "8", "9"}
IsDigit(c) == c \in Digits

\* value.replace(/\D/g, ''): the digits of the value, in order
StripNonDigits(value) == SelectSeq(value, IsDigit)

\* Strings of at most n characters over an alphabet
RECURSIVE Strings(_, _)
Strings(alphabet, n) ==
    IF n = 0 THEN {<<>>}
    ELSE LET shorter == Strings(alphabet, n - 1)
         IN shorter \cup {Append(t, c) : t \in {x \in shorter : Len(x) = n - 1},
                                         c \in alphabet}

\* The messages of lines 46 (Russian for "enter exactly 11 digits") and 48
MsgTicket == "enter exactly 11 digits"
MsgNone == ""

\* line 164: pattern '[0-9]{11}', matched against the whole value
MatchesTicketPattern(value) ==
    Len(value) = 11 /\ \A i \in 1..Len(value) : IsDigit(value[i])

\* field.validity.valid: a required field must not be empty (valueMissing)
\* and a non-empty value must match the pattern of the field, which only
\* the ticket input has, once lines 163-164 have run (patternMismatch).
ValidityValid(field) ==
    /\ ~(field.required /\ field.value = <<>>)
    /\ (field.pattern /\ field.value # <<>>) => MatchesTicketPattern(field.value)

\* validateField (lines 4-21): the field after the call
validateFieldEffect(field, errorMessage) ==
    IF ~ValidityValid(field)
    THEN [field EXCEPT !.inputError = TRUE,
                       !.message = IF field.hasErrorDiv THEN errorMessage ELSE @,
                       !.show = IF field.hasErrorDiv THEN TRUE ELSE @]
    ELSE [field EXCEPT !.inputError = FALSE,
                       !.show = IF field.hasErrorDiv THEN FALSE ELSE @]

\* validateField (lines 4-21): the value returned
validateField(field, errorMessage) == ValidityValid(field)

\* validateTicket (lines 43-49): the value returned
validateTicket(input) ==
    IF Len(StripNonDigits(input.value)) # 11
    THEN validateField(input, MsgTicket)
    ELSE validateField(input, MsgNone)

\* validateTicket (lines 43-49): the field after the call
validateTicketEffect(input) ==
    IF Len(StripNonDigits(input.value)) # 11
    THEN validateFieldEffect(input, MsgTicket)
    ELSE validateFieldEffect(input, MsgNone)

\* Values of the ticket field: every string of a digit and a separator up
\* to the bound, and the examples of the specification
TicketExamples ==
    { <<"+", "7", " ", "(", "9", "1", "1", ")", " ", "2", "3", "4", "-",
        "5", "6", "-", "7", "8">>,
      <<"1", "2", "3", "4", "5">> }
TicketValues == Strings({"7", "-"}, MaxTicketLen) \cup TicketExamples

\* The ticket field after DOMContentLoaded (lines 146-165): a required
\* input has an error div next to it (lines 148-154), another input may.
TicketFields ==
    {f \in [value : TicketValues, required : BOOLEAN, hasErrorDiv : BOOLEAN,
            inputError : {FALSE}, message : {MsgNone}, show : {FALSE},
            pattern : {TRUE}] :
        f.required => f.hasErrorDiv}

\* A returned boolean, as recorded in ticketResult
Returned(b) == IF b THEN "true" ELSE "false"

\* ---- the fields of the form
DepartmentId == <<"department", 0>>
IssueId == <<"issue", 0>>
TicketId == <<"ticket", 0>>
DescId(i) == <<"desc", i>>
EvalId(i) == <<"eval", i>>
NoField == <<"none", 0>>

\* The inputs held in `fields` when the document has n item cards
OtherFieldIds(n) ==
    {DepartmentId, IssueId} \cup {DescId(i) : i \in 1..n}
                            \cup {EvalId(i) : i \in 1..n}
FieldIds(n) == OtherFieldIds(n) \cup {TicketId}

\* The messages of lines 81, 89, 108 and 114 (in Russian in the source)
MsgDept == "specify the department"
MsgIssue == "specify the issue number"
MsgDesc == "enter the item description"
MsgEval == "enter the evaluation"

\* The document as a handler finds it (scrolledTo: the field the handler
\* has called scrollIntoView on)
Document == [ticket |-> ticket, fields |-> fields, focused |-> focused,
             scrolledTo |-> NoField]
GetField(doc, f) == IF f = TicketId THEN doc.ticket ELSE doc.fields[f]
SetField(doc, f, field) ==
    IF f = TicketId THEN [doc EXCEPT !.ticket = field]
    ELSE [doc EXCEPT !.fields[f] = field]

\* The blocks of the document in order, and the fields in document order:
\* the item cards come in the order querySelectorAll lists them (line
\* 102), each with its description and its evaluation.
Blocks == {"department", "issue", "ticket", "items"}
RECURSIVE CardsInOrder(_, _)
CardsInOrder(i, n) ==
    IF i > n THEN <<>>
    ELSE (IF layout.descFirst THEN <<DescId(i), EvalId(i)>>
          ELSE <<EvalId(i), DescId(i)>>) \o CardsInOrder(i + 1, n)
RECURSIVE FieldsOfBlocks(_)
FieldsOfBlocks(blocks) ==
    IF blocks = <<>> THEN <<>>
    ELSE (IF Head(blocks) = "items" THEN CardsInOrder(1, itemCards)
          ELSE <<<<Head(blocks), 0>>>>) \o FieldsOfBlocks(Tail(blocks))
DocumentOrder == FieldsOfBlocks(layout.order)

\* ---- formatNumberWithSpaces (lines 52-54)
\* \w of a regular expression, over the characters the values here use
IsWordChar(c) == c \in Digits \cup {"a", "b", "c", "x", "_"}

\* Every position is taken, the start of the value included.
AnyPosition(value, i) == TRUE

\* \B at position i, between characters i and i + 1: not a word boundary
NotWordBoundary(value, i) ==
    LET before == i >= 1 /\ IsWordChar(value[i])
        after == i < Len(value) /\ IsWordChar(value[i + 1])
    IN before = after

\* (?=(\d{3})+(?!\d)) at position i: one or more groups of three digits
\* follow, and no digit after them
GroupsOfThreeAhead(value, i) ==
    \E k \in 1..((Len(value) - i) \div 3) :
        /\ \A j \in (i + 1)..(i + 3 * k) : IsDigit(value[j])
        /\ (i + 3 * k = Len(value)) \/ ~IsDigit(value[i + 3 * k + 1])

\* replace(/\B(?=(\d{3})+(?!\d))/g, ' ') from position i on: a space is
\* put at every position where the expression matches (the empty string)
RECURSIVE ReplaceFrom(_, _)
ReplaceFrom(value, i) ==
    LET space == IF NotWordBoundary(value, i) /\ GroupsOfThreeAhead(value, i)
                 THEN <<" ">> ELSE <<>>
    IN IF i = Len(value) THEN space
       ELSE space \o <<value[i + 1]>> \o ReplaceFrom(value, i + 1)

formatNumberWithSpaces(value) == ReplaceFrom(value, 0)

\* formatEvaluation (lines 57-62): the field after the call
formatEvaluation(input) ==
    LET value == StripNonDigits(input.value)
    IN IF value # <<>>
       THEN [input EXCEPT !.value = formatNumberWithSpaces(value)]
       ELSE input

\* ---- clearFieldError (lines 23-40)
\* lines 30-35: the field whose error div parent.querySelector finds for a
\* field with no error div next to it. A description and an evaluation
\* that sit in their card without wrappers share the card as parent.
ErrorDivInParent(doc, f) ==
    IF f[1] \in {"desc", "eval"} /\ layout.shared
    THEN LET first == IF layout.descFirst THEN DescId(f[2]) ELSE EvalId(f[2])
             second == IF layout.descFirst THEN EvalId(f[2]) ELSE DescId(f[2])
         IN IF GetField(doc, first).hasErrorDiv THEN first
            ELSE IF GetField(doc, second).hasErrorDiv THEN second
            ELSE NoField
    ELSE NoField

\* The error class is removed only when the value is valid.
clearFieldErrorIfValid(doc, f) ==
    IF ValidityValid(GetField(doc, f))
    THEN SetField(doc, f, [GetField(doc, f) EXCEPT !.inputError = FALSE,
                                                   !.show = FALSE])
    ELSE doc

clearFieldError(doc, f) ==
    LET cleared == SetField(doc, f, [GetField(doc, f) EXCEPT !.inputError = FALSE])
        errorDiv == IF GetField(doc, f).hasErrorDiv THEN f
                    ELSE ErrorDivInParent(doc, f)
    IN IF errorDiv = NoField THEN cleared
       ELSE SetField(cleared, errorDiv,
                     [GetField(cleared, errorDiv) EXCEPT !.show = FALSE])

\* ---- listeners
\* 'input' listener (lines 129-135) and 'focus' listener (lines 137-143):
\* every field is an input, select or textarea
InputListener(doc, f) == clearFieldError(doc, f)
FocusListener(doc, f) == clearFieldError(doc, f)

\* 'blur' listeners: of the ticket input (lines 159-161) and of the
\* document for the evaluation fields (lines 168-172)
BlurListeners(doc, f) ==
    IF f = TicketId THEN SetField(doc, f, validateTicketEffect(GetField(doc, f)))
    ELSE IF f[1] = "eval" THEN SetField(doc, f, formatEvaluation(GetField(doc, f)))
    ELSE doc

\* The focus moves to f (NoField: away from the fields), by the user or by
\* element.focus() (lines 69, 122): nothing happens when f has the focus
\* already; otherwise the field losing the focus gets its blur event and f
\* its focus event, before focus() returns.
Focus(doc, f) ==
    IF doc.focused = f THEN doc
    ELSE LET blurred == IF doc.focused = NoField THEN doc
                        ELSE BlurListeners(doc, doc.focused)
             moved == [blurred EXCEPT !.focused = f]
         IN IF f = NoField THEN moved ELSE FocusListener(moved, f)

\* ---- validateForm (lines 74-126)
\* lines 80-84, 88-92, 107-111, 113-117: a field with an empty value
CheckEmpty(st, f, errorMessage) ==
    IF GetField(st.doc, f).value = <<>>
    THEN [doc |-> SetField(st.doc, f,
                           validateFieldEffect(GetField(st.doc, f), errorMessage)),
          isValid |-> FALSE,
          errors |-> Append(st.errors, f)]
    ELSE st

\* lines 95-99
CheckTicket(st) ==
    IF ~validateTicket(st.doc.ticket)
    THEN [doc |-> SetField(st.doc, TicketId, validateTicketEffect(st.doc.ticket)),
          isValid |-> FALSE,
          errors |-> Append(st.errors, TicketId)]
    ELSE [st EXCEPT !.doc = SetField(st.doc, TicketId,
                                     validateTicketEffect(st.doc.ticket))]

\* lines 102-118: the cards from i on
RECURSIVE CheckItems(_, _)
CheckItems(st, i) ==
    IF i > itemCards THEN st
    ELSE CheckItems(CheckEmpty(CheckEmpty(st, DescId(i), MsgDesc),
                               EvalId(i), MsgEval), i + 1)

\* lines 120-123
FocusFirstError(st) ==
    IF ~st.isValid /\ st.errors # <<>>
    THEN [st EXCEPT !.doc = Focus([st.doc EXCEPT !.scrolledTo = st.errors[1]],
                                  st.errors[1])]
    ELSE st

\* The whole call: the document after it, and the value returned (isValid)
validateForm(doc) ==
    LET start == [doc |-> doc, isValid |-> TRUE, errors |-> <<>>]
        top == CheckTicket(CheckEmpty(CheckEmpty(start, DepartmentId, MsgDept),
                                      IssueId, MsgIssue))
    IN FocusFirstError(CheckItems(top, 1))

\* scrollToFirstError (lines 65-71): the document after the call
scrollToFirstError(doc) ==
    LET marked == SelectSeq(DocumentOrder, LAMBDA f : GetField(doc, f).inputError)
    IN IF marked # <<>>
       THEN Focus([doc EXCEPT !.scrolledTo = marked[1]], marked[1])
       ELSE doc

\* ---- the operations on the page
\* A step that leaves the document `doc` behind
DocumentBecomes(doc) ==
    /\ ticket' = doc.ticket
    /\ fields' = doc.fields
    /\ focused' = doc.focused
    /\ scrolledTo' = doc.scrolledTo

\* blur listener of the ticket input (lines 159-161)
TicketBlur ==
    /\ ticketResult' = Returned(validateTicket(ticket))
    /\ ticket' = validateTicketEffect(ticket)
    /\ UNCHANGED <<fields, itemCards, layout, focused, scrolledTo, formResult>>
    /\ UNCHANGED <<syncVars, srVars, cacheVars>>

\* The user moves the focus to field f, or away from the fields (NoField)
FocusEvent(f) ==
    /\ f # focused
    /\ DocumentBecomes(Focus(Document, f))
    /\ ticketResult' = IF focused = TicketId
                       THEN Returned(validateTicket(ticket)) ELSE "none"
    /\ formResult' = "none"
    /\ UNCHANGED <<itemCards, layout>>
    /\ UNCHANGED <<syncVars, srVars, cacheVars>>

\* The user edits the field that has the focus: its value changes and the
\* 'input' event is dispatched (the focus stays where it is)
InputEvent(value) ==
    /\ focused # NoField
    /\ GetField(Document, focused).value # value
    /\ DocumentBecomes(InputListener(
           SetField(Document, focused,
                    [GetField(Document, focused) EXCEPT !.value = value]),
           focused))
    /\ ticketResult' = "none"
    /\ formResult' = "none"
    /\ UNCHANGED <<itemCards, layout>>
    /\ UNCHANGED <<syncVars, srVars, cacheVars>>

\* The form is submitted: the page calls validateForm()
ValidateForm ==
    LET st == validateForm(Document)
    IN /\ DocumentBecomes(st.doc)
       /\ formResult' = Returned(st.isValid)
       /\ ticketResult' = Returned(validateTicket(ticket))
       /\ UNCHANGED <<itemCards, layout>>
       /\ UNCHANGED <<syncVars, srVars, cacheVars>>

\* The page calls scrollToFirstError()
ScrollToFirstError ==
    /\ DocumentBecomes(scrollToFirstError(Document))
    /\ ticketResult' = IF focused = TicketId /\ focused' # TicketId
                       THEN Returned(validateTicket(ticket)) ELSE "none"
    /\ formResult' = "none"
    /\ UNCHANGED <<itemCards, layout>>
    /\ UNCHANGED <<syncVars, srVars, cacheVars>>

\* ---- the states of the form
\* A field nothing has validated yet
NewField(value, required, hasErrorDiv, pattern) ==
    [value |-> value, required |-> required, hasErrorDiv |-> hasErrorDiv,
     inputError |-> FALSE, message |-> MsgNone, show |-> FALSE,
     pattern |-> pattern]

\* required / error div of a field: a required input of the page has an
\* error div next to it after DOMContentLoaded (lines 148-154); a field of
\* an item card added later may be required and have none.
StaticFlags == {<<TRUE, TRUE>>, <<FALSE, TRUE>>, <<FALSE, FALSE>>}
CardFlags == StaticFlags \cup {<<TRUE, FALSE>>}

\* The order validateForm checks the fields in
CheckOrder == <<"department", "issue", "ticket", "items">>
RECURSIVE Arrangements(_)
Arrangements(set) ==
    IF set = {} THEN {<<>>}
    ELSE UNION {{<<x>> \o rest : rest \in Arrangements(set \ {x})} : x \in set}

ElevenDigits == <<"1", "2", "3", "4", "5", "6", "7", "8", "9", "0", "1">>
FormTicketValues == {<<>>, ElevenDigits} \cup TicketExamples
TextValues == {<<>>, <<"x">>}
FormEvalValues == {<<>>, <<"a", "b", "c">>, <<"1", "5", " ", "0", "0", "0">>}
ValuesOf(f) ==
    IF f = TicketId THEN FormTicketValues
    ELSE IF f[1] = "eval" THEN FormEvalValues
    ELSE TextValues

FormIdle ==
    /\ ticket = NewField(<<>>, TRUE, TRUE, TRUE)
    /\ ticketResult = "none"
    /\ itemCards = 0
    /\ fields = [f \in OtherFieldIds(0) |-> NewField(<<>>, TRUE, TRUE, FALSE)]
    /\ layout = [order |-> CheckOrder, descFirst |-> TRUE, shared |-> FALSE]
    /\ focused = NoField
    /\ scrolledTo = NoField
    /\ formResult = "none"

SyncInit ==
    /\ dbVersion = 0
    /\ objectStores = {}
    /\ pendingStore = {}
    /\ keyGenerator = 1
    /\ syncTags = <<>>
    /\ passes = [p \in 1..MaxPasses |-> IdlePass]
    /\ posts = <<>>
    /\ endpoint \in SUBSET Payloads

SendReportIdle ==
    /\ srData = "a"
    /\ srResponse = [transport |-> "ok", status |-> 200, json |-> TRUE]
    /\ srResult = "none"

InitSync == SyncInit /\ SendReportIdle /\ CacheInit /\ FormIdle

NextSync ==
    \/ \E d \in Payloads : Enqueue(d)
    \/ \E tag \in SyncTags : SyncEvent(tag)
    \/ \E p \in 1..MaxPasses : OpenDBSuccess(p)
    \/ \E p \in 1..MaxPasses : OpenDBError(p)
    \/ \E p \in 1..MaxPasses : GetAll(p)
    \/ \E p \in 1..MaxPasses : ForOf(p)

SpecSync == InitSync /\ [][NextSync]_vars

\* A further 'sync-reports' event while the log of tags is not extended:
\* Background Sync dispatches the event again after the promise given to
\* event.waitUntil (line 52) has rejected, and the page may register the
\* tag again; the listener starts syncPendingReports anew, here in the
\* slot of a pass that has settled.
SyncRetry(p) ==
    /\ p \in Settled
    /\ passes' = [passes EXCEPT ![p] = [IdlePass EXCEPT !.pc = "openDB"]]
    /\ UNCHANGED <<dbVersion, objectStores, pendingStore, keyGenerator,
                   syncTags, posts, endpoint>>
    /\ UNCHANGED <<srVars, cacheVars, formVars>>

\* The steps of a pass whose database opens
PassStep(p) == OpenDBSuccess(p) \/ GetAll(p) \/ ForOf(p)

\* The sync with triggers that keep occurring and passes that run to
\* completion: the database opens, every started pass takes its next step
\* and a settled pass is followed by another trigger.
NextSyncLive ==
    \/ \E d \in Payloads : Enqueue(d)
    \/ \E tag \in SyncTags : SyncEvent(tag)
    \/ \E p \in 1..MaxPasses : PassStep(p)
    \/ \E p \in 1..MaxPasses : SyncRetry(p)

FairSync ==
    /\ \A p \in 1..MaxPasses : WF_vars(PassStep(p))
    /\ WF_vars(\E p \in 1..MaxPasses : SyncRetry(p))

SpecSyncLive == InitSync /\ [][NextSyncLive]_vars /\ FairSync

InitSendReport ==
    /\ SyncInit
    /\ endpoint = {}
    /\ srData \in Payloads
    /\ srResponse \in Responses
    /\ srResult = "none"
    /\ CacheInit /\ FormIdle

NextSendReport == SendReportCall

SpecSendReport == InitSendReport /\ [][NextSendReport]_vars

InitCache == CacheInit /\ SyncInit /\ endpoint = {} /\ SendReportIdle /\ FormIdle

NextCache ==
    \/ \E w \in WorkerIds : InstallEvent(w)
    \/ \E w \in WorkerIds : InstallOpen(w)
    \/ \E w \in WorkerIds, failed \in SUBSET urlsToCache : InstallAddAll(w, failed)
    \/ \E w \in WorkerIds : InstallSettled(w)
    \/ \E w \in WorkerIds : ActivateEvent(w)
    \/ \E w \in WorkerIds : ActivateKeys(w)
    \/ \E w \in WorkerIds, n \in CacheNames(cacheStorage) : ActivateDelete(w, n)
    \/ \E w \in WorkerIds : ActivateSettled(w)
    \/ \E w \in WorkerIds : ClaimClients(w)
    \/ \E w \in WorkerIds, u \in Urls, pg \in Pages : FetchEvent(w, u, pg)
    \/ FetchMatch
    \/ \E ok \in BOOLEAN : FetchNetwork(ok)

SpecCache == InitCache /\ [][NextCache]_vars

\* The worker with one submission queued: lifecycle and fetch events and
\* one sync pass, interleaved
InitWorker ==
    /\ CacheInit /\ SendReportIdle /\ FormIdle
    /\ dbVersion = 1
    /\ objectStores = {"pending"}
    /\ pendingStore = {[id |-> 1, data |-> "a"]}
    /\ keyGenerator = 2
    /\ syncTags = <<>>
    /\ passes = [p \in 1..MaxPasses |-> IdlePass]
    /\ posts = <<>>
    /\ endpoint = {}

NextWorker ==
    \/ NextCache
    \/ Started = {} /\ SyncEvent("sync-reports")
    \/ OpenDBSuccess(1)
    \/ OpenDBError(1)
    \/ GetAll(1)
    \/ ForOf(1)

SpecWorker == InitWorker /\ [][NextWorker]_vars

InitTicket ==
    /\ SyncInit /\ endpoint = {} /\ SendReportIdle /\ CacheInit
    /\ ticket \in TicketFields
    /\ ticketResult = "none"
    /\ itemCards = 0
    /\ fields = [f \in OtherFieldIds(0) |-> NewField(<<>>, TRUE, TRUE, FALSE)]
    /\ layout = [order |-> CheckOrder, descFirst |-> TRUE, shared |-> FALSE]
    /\ focused = NoField
    /\ scrolledTo = NoField
    /\ formResult = "none"

NextTicket == TicketBlur

SpecTicket == InitTicket /\ [][NextTicket]_vars

\* The values the fields of a form with n item cards may hold
ValueAssignments(n) ==
    {g \in [OtherFieldIds(n) -> TextValues \cup FormEvalValues] :
        \A f \in OtherFieldIds(n) : g[f] \in ValuesOf(f)}

\* The fields of a form nothing has validated yet. The cards come from one
\* template: the descriptions share their flags and so do the evaluations.
FreshFields(values, top, desc, eval) ==
    [f \in OtherFieldIds(itemCards) |->
        IF f[1] = "desc" THEN NewField(values[f], desc[1], desc[2], FALSE)
        ELSE IF f[1] = "eval" THEN NewField(values[f], eval[1], eval[2], FALSE)
        ELSE NewField(values[f], top[1], top[2], FALSE)]

NoCallYet ==
    /\ ticketResult = "none"
    /\ scrolledTo = NoField
    /\ formResult = "none"

\* validateForm called on a filled-in form
InitSubmit ==
    /\ SyncInit /\ endpoint = {} /\ SendReportIdle /\ CacheInit
    /\ itemCards \in 0..MaxItems
    /\ layout \in [order : {CheckOrder}, descFirst : {TRUE}, shared : BOOLEAN]
    /\ \E top \in StaticFlags, tk \in StaticFlags, desc \in CardFlags,
          eval \in CardFlags, values \in ValueAssignments(itemCards) :
          /\ ticket \in {NewField(v, tk[1], tk[2], TRUE) : v \in FormTicketValues}
          /\ fields = FreshFields(values, top, desc, eval)
    /\ focused \in FieldIds(itemCards) \cup {NoField}
    /\ NoCallYet

NextSubmit == ValidateForm

SpecSubmit == InitSubmit /\ [][NextSubmit]_vars

\* The page in use: the form starts empty, its static inputs required; the
\* user moves the focus, edits the focused field and submits
InitForm ==
    /\ SyncInit /\ endpoint = {} /\ SendReportIdle /\ CacheInit
    /\ itemCards \in 0..MaxItems
    /\ layout \in [order : {CheckOrder}, descFirst : {TRUE}, shared : BOOLEAN]
    /\ ticket = NewField(<<>>, TRUE, TRUE, TRUE)
    /\ \E desc \in {<<TRUE, TRUE>>, <<TRUE, FALSE>>} :
          fields = FreshFields([f \in OtherFieldIds(itemCards) |-> <<>>],
                               <<TRUE, TRUE>>, desc, <<TRUE, TRUE>>)
    /\ focused = NoField
    /\ NoCallYet

NextForm ==
    \/ \E f \in FieldIds(itemCards) \cup {NoField} : FocusEvent(f)
    \/ \E value \in ValuesOf(focused) : InputEvent(value)
    \/ ValidateForm
    \/ ScrollToFirstError

SpecForm == InitForm /\ [][NextForm]_vars

\* Values of an evaluation field: every string of two digits, the space and
\* a letter up to the bound, and the example of line 51
EvalValues ==
    Strings({"0", "1", " ", "a"}, MaxEvalLen) \cup {<<"1", "5", "0", "0", "0">>}

\* An evaluation field that holds any value and has the focus, in a form
\* with one item card; the focus leaves the field and comes back
InitEval ==
    /\ SyncInit /\ endpoint = {} /\ SendReportIdle /\ CacheInit
    /\ itemCards = 1
    /\ layout = [order |-> CheckOrder, descFirst |-> TRUE, shared |-> FALSE]
    /\ ticket = NewField(ElevenDigits, TRUE, TRUE, TRUE)
    /\ \E value \in EvalValues :
          fields = FreshFields((DepartmentId :> <<"x">>) @@ (IssueId :> <<"x">>) @@
                               (DescId(1) :> <<"x">>) @@ (EvalId(1) :> value),
                               <<TRUE, TRUE>>, <<TRUE, TRUE>>, <<TRUE, TRUE>>)
    /\ focused = EvalId(1)
    /\ NoCallYet

NextEval ==
    \/ FocusEvent(NoField)
    \/ FocusEvent(EvalId(1))

SpecEval == InitEval /\ [][NextEval]_vars

\* validateForm called on forms whose blocks come in any order in the
\* document; every input is required and has its error div
InitFormOrder ==
    /\ SyncInit /\ endpoint = {} /\ SendReportIdle /\ CacheInit
    /\ itemCards \in 0..MaxItems
    /\ layout \in [order : Arrangements(Blocks), descFirst : BOOLEAN,
                   shared : {FALSE}]
    /\ \E values \in ValueAssignments(itemCards) :
          fields = FreshFields(values, <<TRUE, TRUE>>, <<TRUE, TRUE>>,
                               <<TRUE, TRUE>>)
    /\ ticket \in {NewField(v, TRUE, TRUE, TRUE) : v \in FormTicketValues}
    /\ focused = NoField
    /\ NoCallYet

NextFormOrder ==
    \/ formResult = "none" /\ scrolledTo = NoField /\ ValidateForm
    \/ formResult = "false" /\ ScrollToFirstError

SpecFormOrder == InitFormOrder /\ [][NextFormOrder]_vars

\* ------------------------------------------------------------------------
\* Claims about the background sync

\* The records a pass read from the store (those its request carries)
ReadBy(p) ==
    IF passes[p].pending = Undefined THEN {}
    ELSE {passes[p].pending.result[i] : i \in 1..Len(passes[p].pending.result)}

\* The POSTs the endpoint received from pass p, in order
RECURSIVE PostsOf(_, _)
PostsOf(p, log) ==
    IF log = <<>> THEN <<>>
    ELSE IF Head(log).pass = p THEN <<Head(log).id>> \o PostsOf(p, Tail(log))
    ELSE PostsOf(p, Tail(log))

Acknowledged(r) ==
    \E i \in 1..Len(posts) :
        posts[i].id = r.id /\ posts[i].data = r.data /\ posts[i].ack

\* C1 (as claimed): once a sync pass that ran alone has completed, each
\* entry it read from the store has been removed if and only if the remote
\* endpoint acknowledges its payload (three entries, the second refused:
\* entries 1 and 3 are gone, entry 2 remains).
C1_AsClaimed ==
    \A p \in Settled :
        Started = {p} =>
            \A r \in ReadBy(p) : (r \notin pendingStore) <=> (r.data \notin endpoint)

\* C2: an entry leaves the pending store only in a step after which the
\* remote endpoint has acknowledged a delivery of that entry's payload.
C2_NoSilentDrop ==
    [][\A r \in pendingStore : r \notin pendingStore' => Acknowledged(r)']_vars

\* C2 witness: two overlapping passes have read a non-empty store, one of
\* them has completed, and every entry ever enqueued is still queued.
C2_Witness ==
    /\ passes[1].pc = "rejected" /\ ReadBy(1) # {}
    /\ passes[2].pc = "forOf" /\ ReadBy(2) # {}
    /\ Ids(pendingStore) = 1..(keyGenerator - 1)

\* C3: the remote endpoint never acknowledges two deliveries of the same
\* pending entry.
C3_NoDuplicateDelivery ==
    \A i, j \in 1..Len(posts) :
        (posts[i].ack /\ posts[j].ack /\ posts[i].id = posts[j].id) => i = j

\* C3 witness: a second 'sync-reports' pass read the same accepted entry
\* as an earlier pass, and both passes have completed.
C3_Witness ==
    /\ Settled = {1, 2}
    /\ \E r \in ReadBy(1) \cap ReadBy(2) : r.data \notin endpoint

\* C4 (as claimed): a completed pass has made exactly one delivery attempt
\* for every entry it read, in the order it read them.
C4_AsClaimed ==
    \A p \in Settled :
        passes[p].pending # Undefined =>
            PostsOf(p, posts) =
                [i \in 1..Len(passes[p].pending.result) |->
                    passes[p].pending.result[i].id]

\* C5 (as claimed): a delivery counts as successful exactly when the
\* response arrived with a status in 200-299, whatever else it carries.
C5_AsClaimed ==
    srResult # "none" =>
        (srResult = "fulfilled" <=>
            (srResponse.transport = "ok" /\ srResponse.status \in 200..299))

\* ------------------------------------------------------------------------
\* Claims about the offline cache

Range(seq) == {seq[i] : i \in 1..Len(seq)}
CacheOf(n) == cacheStorage[CacheNamed(cacheStorage, n)]

\* C6 (as claimed): when the activation of a revision completes, no cache
\* with a name other than that revision's cache name exists.
C6_AsClaimed ==
    [][\A w \in WorkerIds :
          (workers[w].state = "activating" /\ workers'[w].state = "activated")
              => CacheNames(cacheStorage') \subseteq {CACHE_NAME(w)}]_vars

\* C6 (amended): once the activation of a revision has completed, every
\* cache that existed when its handler enumerated the cache names and whose
\* name differs from the revision's cache name is gone, and the revision's
\* activation never asks for its own cache to be deleted.
C6_Rollover ==
    \A w \in WorkerIds :
        /\ CACHE_NAME(w) \notin workers[w].toDelete
        /\ workers[w].activate = "done" =>
              \A n \in Range(workers[w].cacheNames) \ {CACHE_NAME(w)} :
                  n \notin CacheNames(cacheStorage)

\* C6 witness: revision 2 is activated, it found revision 1's cache among
\* the cache names, and only revision 2's cache is left.
C6_Witness ==
    /\ workers[2].state = "activated"
    /\ CACHE_NAME(1) \in Range(workers[2].cacheNames)
    /\ CacheNames(cacheStorage) = {CACHE_NAME(2)}

\* C7 (as claimed): the response to a fetch comes from the cache of the
\* handling revision's own version tag or from the network, never from a
\* cache of another version tag.
C7_AsClaimed ==
    fetchEv.pc = "responded" =>
        fetchEv.from \in {CACHE_NAME(fetchEv.worker), FromNetwork, NetworkError}

\* C8: after the precache of a revision failed, the revision is never
\* installed or activated and its cache holds none of the listed assets;
\* and the step in which the precache fails, like the one that discards
\* the revision, leaves every cache, the active worker and the pages it
\* controls as they were.
C8_InstallFailure ==
    /\ [](\A w \in WorkerIds :
            workers[w].install = "rejected" =>
                /\ workers[w].state \in {"installing", "redundant"}
                /\ CACHE_NAME(w) \in CacheNames(cacheStorage) =>
                       CacheOf(CACHE_NAME(w)).urls \cap urlsToCache = {})
    /\ [][\A w \in WorkerIds :
            (workers'[w].install = "rejected" /\ workers'[w] # workers[w]) =>
                /\ cacheStorage' = cacheStorage
                /\ ActiveWorker' = ActiveWorker
                /\ controller' = controller]_vars

\* C8 witness: the precache of revision 2 failed and the revision was
\* discarded, its cache is empty, and revision 1 is activated and has
\* answered a fetch from its own cache, which holds every listed asset.
C8_Witness ==
    /\ workers[2].install = "rejected" /\ workers[2].state = "redundant"
    /\ CACHE_NAME(2) \in CacheNames(cacheStorage)
    /\ CacheOf(CACHE_NAME(2)).urls = {}
    /\ workers[1].state = "activated"
    /\ CACHE_NAME(1) \in CacheNames(cacheStorage)
    /\ CacheOf(CACHE_NAME(1)).urls = urlsToCache
    /\ fetchEv.pc = "responded" /\ fetchEv.worker = 1
    /\ fetchEv.from = CACHE_NAME(1)

\* A step of the install handler or of the activate handler of a revision
InstallOrActivateStep ==
    \E w \in WorkerIds :
        \/ workers'[w].install # workers[w].install
        \/ workers'[w].toDelete # workers[w].toDelete

\* C9: no step of the fetch handler or of a sync pass changes a cache, and
\* every step that does change a cache is a step of an install handler
\* (precache) or of an activate handler (purge).
C9_PrecacheOnly ==
    [][/\ (fetchEv' # fetchEv \/ passes' # passes) => cacheStorage' = cacheStorage
       /\ cacheStorage' # cacheStorage => InstallOrActivateStep]_vars

\* C9 witness: a fetch of a URL that is not precached was answered from the
\* network, a sync pass has completed, and the cache of the handling
\* revision holds the precached assets only.
C9_Witness ==
    /\ fetchEv.pc = "responded" /\ fetchEv.from = FromNetwork
    /\ fetchEv.url \notin urlsToCache
    /\ 1 \in Settled /\ ReadBy(1) # {}
    /\ CACHE_NAME(fetchEv.worker) \in CacheNames(cacheStorage)
    /\ CacheOf(CACHE_NAME(fetchEv.worker)).urls = urlsToCache

\* ------------------------------------------------------------------------
\* Claims about the form validation

\* C10 (as claimed): validateTicket returns true exactly when the value
\* holds 11 digits once the non-digits are stripped, and for any other
\* digit count the field shows the 'exactly 11 digits' message, whatever
\* the native validity state of the field.
C10_AsClaimed ==
    ticketResult # "none" =>
        /\ ticketResult = Returned(Len(StripNonDigits(ticket.value)) = 11)
        /\ Len(StripNonDigits(ticket.value)) # 11 =>
               (ticket.inputError /\ ticket.show /\ ticket.message = MsgTicket)

\* A numeric evaluation: digits, possibly grouped with spaces
IsNumeric(value) ==
    /\ StripNonDigits(value) # <<>>
    /\ \A i \in 1..Len(value) : value[i] \in Digits \cup {" "}

\* C11 (as claimed): validateForm returns true if and only if the
\* department and the issue number are not empty, the ticket holds exactly
\* 11 digits once the non-digits are stripped, and every item card has a
\* non-empty description and a non-empty numeric evaluation (with no item
\* card, the three top-level fields decide).
C11_AsClaimed ==
    formResult # "none" =>
        (formResult = "true" <=>
            /\ fields[DepartmentId].value # <<>>
            /\ fields[IssueId].value # <<>>
            /\ Len(StripNonDigits(ticket.value)) = 11
            /\ \A i \in 1..itemCards :
                  /\ fields[DescId(i)].value # <<>>
                  /\ IsNumeric(fields[EvalId(i)].value))

\* A focus event was dispatched on field f in this step: the focus moved
\* to it
FocusedIn(f) == focused # f /\ focused' = f
\* An input event was dispatched on f in this step: its value changed
\* while it kept the focus
EditedIn(f) ==
    /\ focused = f /\ focused' = f
    /\ GetField(Document', f).value # GetField(Document, f).value
\* A validation pass covering f ran in this step: validateForm, or
\* validateTicket as the ticket input lost the focus
ValidatedIn(f) ==
    \/ formResult' # "none"
    \/ f = TicketId /\ focused = TicketId /\ focused' # TicketId

\* C12: an input or focus event on a field that has the error class and
\* shows its message leaves the field without the class and with the
\* message hidden, whether its value is valid or not; and a field without
\* error display gets one again only in a step that validates it:
\* validateForm, or the blur of the ticket input.
C12_Clearing ==
    [][\A f \in FieldIds(itemCards) :
          /\ (/\ GetField(Document, f).inputError /\ GetField(Document, f).show
              /\ FocusedIn(f) \/ EditedIn(f))
                => (/\ ~GetField(Document', f).inputError
                    /\ ~GetField(Document', f).show)
          /\ (/\ ~GetField(Document, f).inputError /\ ~GetField(Document, f).show
              /\ GetField(Document', f).inputError \/ GetField(Document', f).show)
                => ValidatedIn(f)]_vars

\* C12 witness: the ticket input was marked with the 11-digit message when
\* it held another value; it has the focus, it has been edited since, and
\* it has no error display although its present value is invalid as well.
C12_Witness ==
    /\ focused = TicketId
    /\ ticket.value # <<>> /\ ~ValidityValid(ticket)
    /\ Len(StripNonDigits(ticket.value)) = 11
    /\ ticket.message = MsgTicket
    /\ ~ticket.inputError /\ ~ticket.show

\* The digits d with a space before every group of three counted from the
\* right
RECURSIVE Grouped(_)
Grouped(d) ==
    IF Len(d) <= 3 THEN d
    ELSE Grouped(SubSeq(d, 1, Len(d) - 3)) \o <<" ">> \o SubSeq(d, Len(d) - 2, Len(d))

\* The evaluation field of card i lost the focus in this step
EvalBlurred(i) == focused = EvalId(i) /\ focused' # EvalId(i)

\* C13: formatNumberWithSpaces, applied as an evaluation field loses the
\* focus to the non-empty string d of the digits of its value, writes back
\* d with a space before every group of three digits from the right: no
\* leading space, the digit sequence unchanged ('15000' -> '15 000',
\* '1000000' -> '1 000 000'); and stripping the non-digits from the result
\* and formatting again gives the same result.
C13_Grouping ==
    [][\A i \in 1..itemCards :
          (EvalBlurred(i) /\ StripNonDigits(fields[EvalId(i)].value) # <<>>) =>
              LET d == StripNonDigits(fields[EvalId(i)].value)
                  result == fields'[EvalId(i)].value
              IN /\ result = Grouped(d)
                 /\ result[1] # " "
                 /\ StripNonDigits(result) = d
                 /\ formatNumberWithSpaces(StripNonDigits(result)) = result]_vars

\* C13 witness: the evaluation field has lost the focus and holds
\* '1 000 000', which no value typed within the bound is.
C13_Witness ==
    /\ focused = NoField
    /\ fields[EvalId(1)].value = <<"1", " ", "0", "0", "0", " ", "0", "0", "0">>

C15_AsClaimed ==
    \A w \in WorkerIds, pg \in Pages :
        (workers[w].claim = "done" /\ controller[pg] = w) =>
            \A v \in 1..(w - 1) : CACHE_NAME(v) \notin CacheNames(cacheStorage)

\* The fields that make validateForm fail: an empty department, issue,
\* description or evaluation, and a ticket validateTicket rejects
Failing(f) ==
    IF f = TicketId THEN ~validateTicket(ticket)
    ELSE fields[f].value = <<>>

\* The first failing field in document order (NoField: none fails)
FirstFailing ==
    LET failing == SelectSeq(DocumentOrder, Failing)
    IN IF failing = <<>> THEN NoField ELSE failing[1]

\* C16 (as claimed): when validateForm has returned false, the field it
\* scrolled into view and focused is the first invalid field in document
\* order, however the fields are arranged in the document.
C16_AsClaimed ==
    formResult = "false" =>
        (scrolledTo = FirstFailing /\ focused = FirstFailing)

\* C17 (as claimed): when an evaluation field has lost the focus, its value
\* is the digits of its previous value, in order, grouped by three from the
\* right, and nothing else, whatever the previous value was (a value
\* without any digit becomes empty).
C17_AsClaimed ==
    [][\A i \in 1..itemCards :
          EvalBlurred(i) =>
              fields'[EvalId(i)].value =
                  Grouped(StripNonDigits(fields[EvalId(i)].value))]_vars

\* C18 (as claimed): when validateForm has returned false, every field that
\* made it fail carries the error class and shows its message, the field
\* validateForm focused and a natively valid but empty field included.
C18_AsClaimed ==
    formResult = "false" =>
        \A f \in FieldIds(itemCards) :
            Failing(f) =>
                (GetField(Document, f).inputError /\ GetField(Document, f).show)

\* C19 (as claimed): with 'sync-reports' triggers that keep occurring and
\* passes that run to completion, an entry in the store whose payload the
\* endpoint acknowledges is eventually removed from the store, once a
\* first trigger has arrived.
C19_AsClaimed ==
    \A id \in 1..MaxEntries :
        (/\ Started # {}
         /\ \E r \in pendingStore : r.id = id /\ r.data \notin endpoint)
            ~> (id \notin Ids(pendingStore))

\* C20: a sync pass works on what it read from the store at its start: every
\* delivery attempt of a pass is for an entry that pass read, and the step
\* in which the pass runs its loop leaves every entry it did not read (one
\* enqueued after the read) in the store, unchanged; and a 'sync' event
\* with a tag other than 'sync-reports' starts no pass, makes no delivery
\* attempt and leaves the store unchanged.
C20_Snapshot ==
    /\ [](\A i \in 1..Len(posts) :
              posts[i].id \in Ids(ReadBy(posts[i].pass)))
    /\ [][\A p \in 1..MaxPasses :
              (passes[p].pc = "forOf" /\ passes'[p].pc # "forOf") =>
                  /\ \A r \in pendingStore \ ReadBy(p) : r \in pendingStore'
                  /\ \A r \in pendingStore' : r \in pendingStore]_vars
    /\ [][\A tag \in SyncTags \ {"sync-reports"} :
              syncTags' = Append(syncTags, tag) =>
                  /\ passes' = passes
                  /\ posts' = posts
                  /\ pendingStore' = pendingStore]_vars

\* C20 witness: a pass that had read a non-empty store has completed, an
\* entry enqueued after its read is in the store, and a 'sync' event with
\* another tag has been dispatched.
C20_Witness ==
    /\ passes[1].pc = "rejected" /\ passes[1].error = "TypeError"
    /\ ReadBy(1) # {}
    /\ pendingStore \ ReadBy(1) # {}
    /\ \E i \in 1..Len(syncTags) : syncTags[i] = "other"

====
